---- MODULE Spec2Model ----
(***************************************************************************)
(* Model of package logger (src/logger/logger.go): the logging context     *)
(* carried by context.Context (ToContext / Extract), the logCtxBuilder     *)
(* accumulator and the process-wide logger set by InitLogger.              *)
(*                                                                         *)
(* Go maps are reference values: a map is modelled as a cell of the heap   *)
(* `maps`, addressed by its index; NilMap is the nil map.  The content of  *)
(* a cell is a function from the keys present to their values.             *)
(***************************************************************************)
EXTENDS Integers, Sequences, FiniteSets, TLC

VARIABLES
    maps,      \* heap of map[string]interface{} values, by reference
    builders,  \* the logCtxBuilder instances created so far
    ctxs,      \* the context nodes created by ToContext (Root is node 0)
    logger,    \* the package variable `logger`
    last,      \* the last call made: its arguments and what it returned
    wlog,      \* history: the builder calls made, in order (BuilderSpec)
    frames     \* ToContext call frames running concurrently (ConcSpec)

vars == <<maps, builders, ctxs, logger, last, wlog, frames>>

-----------------------------------------------------------------------------
(* Bounds *)

MaxBuilders == 2
MaxCtx == 2
MaxLog == 4

-----------------------------------------------------------------------------
(* Constants of the package *)

correlationIdKey == "correlation-id"
scrapeIdFullKey == "scrape-id-full"
scrapeIdShortKey == "scrape-id-short"
providerKey == "provider"
serviceKey == "service"
regionKey == "region"

(* Inputs the callers draw from *)
CorrelationIds == {"abc", "xyz"}
Regions == {"eu"}
Providers == {"aws"}
Services == {"pke"}
LongRegions == {"eu-west-1"}
ScrapeIds == {"s1"}
FieldNames == {"region", "custom"}
FieldValues == {"eu"}
FrameNames == <<"f1", "f2">>
LevelStrings == {"panic", "fatal", "error", "warn", "warning", "info", "debug",
                 "trace", "WARN", "Debug", "bogus-level", ""}
FormatStrings == {"json", "JSON", "Json", "text", "logfmt", "yaml", "xml",
                  "console", ""}
StartLevels == {"debug"}
StartFormats == {"json"}

-----------------------------------------------------------------------------
(* Go maps *)

NilMap == 0
EmptyFields == [k \in {} |-> ""]

\* m[k] = v
PutIfAbsent(m, k, v) ==
    [x \in DOMAIN m \cup {k} |-> IF x \in DOMAIN m THEN m[x] ELSE v]

Put(m, k, v) ==
    [x \in DOMAIN m \cup {k} |-> IF x = k THEN v ELSE m[x]]

\* for k, v := range src { dst[k] = v }, over the keys of src still to visit
RECURSIVE CopyAll(_, _, _)
CopyAll(dst, src, todo) ==
    IF todo = {} THEN dst
    ELSE LET k == CHOOSE x \in todo : TRUE
         IN  CopyAll(Put(dst, k, src[k]), src, todo \ {k})

-----------------------------------------------------------------------------
(* logrus *)

InfoLevel == "info"

\* strings.ToLower, on the level strings
ToLower(s) ==
    CASE s = "WARN" -> "warn"
      [] s = "Debug" -> "debug"
      [] OTHER -> s

\* logrus.ParseLevel: the level names are matched in lower case
ParseLevel(lvl) ==
    LET l == ToLower(lvl)
    IN  IF l \in {"panic", "fatal", "error", "info", "debug", "trace"}
          THEN [level |-> l, err |-> FALSE]
        ELSE IF l \in {"warn", "warning"}
          THEN [level |-> "warn", err |-> FALSE]
        ELSE [level |-> "panic", err |-> TRUE]

\* logrus.New(): info level, text formatter
LogrusNew == [Level |-> InfoLevel, Formatter |-> "text", FullTimestamp |-> FALSE]

\* A nil *logrus.Entry
NilEntry == [nil |-> TRUE, Logger |-> LogrusNew, Data |-> EmptyFields]

NewEntryNil(l) == NilEntry

\* logrus.NewEntry(logger): an entry of the logger with no field
NewEntry(l) == [nil |-> FALSE, Logger |-> l, Data |-> EmptyFields]

\* logger.WithFields(fields): an entry of the logger with a copy of the fields
WithFields(l, fields) ==
    [nil |-> FALSE, Logger |-> l,
     Data |-> CopyAll(EmptyFields, fields, DOMAIN fields)]

-----------------------------------------------------------------------------
(* InitLogger / newLogger *)

newLoggerNoFallback(config) ==
    LET p == ParseLevel(config.Level)
    IN  [Level |-> p.level,
         Formatter |-> IF config.Format = "json" THEN "json" ELSE "text",
         FullTimestamp |-> config.Format # "json"]

newLogger(config) ==
    LET p == ParseLevel(config.Level)
        level == IF p.err THEN InfoLevel ELSE p.level
    IN  IF config.Format = "json"
          THEN [Level |-> level, Formatter |-> "json", FullTimestamp |-> FALSE]
          ELSE [Level |-> level, Formatter |-> "text", FullTimestamp |-> TRUE]

InitLogger(level, format) ==
    /\ logger' = newLogger([Level |-> level, Format |-> format])
    /\ last' = [op |-> "InitLogger", level |-> level, format |-> format]
    /\ UNCHANGED <<maps, builders, ctxs, frames>>

-----------------------------------------------------------------------------
(* context.Context *)

Root == 0
NoValue == -1

\* ctx.Value(ctxKey) is the value of the nearest node holding ctxKey: every
\* node ToContext makes holds it, so it is the node's own; the root has none
Value(c) == IF c = Root THEN NoValue ELSE ctxs[c].val

\* v, ok := ctx.Value(ctxKey).(map[string]interface{})
AssertMap(v) ==
    IF v = NoValue THEN [val |-> NilMap, ok |-> FALSE]
                   ELSE [val |-> v, ok |-> TRUE]

Contexts == {Root} \cup (1 .. Len(ctxs))

-----------------------------------------------------------------------------
(* Extract *)

ExtractEntry(c) ==
    LET a == AssertMap(Value(c))
        fds == a.val
    IN  IF ~a.ok \/ fds = NilMap
          THEN NewEntry(logger)
          ELSE WithFields(logger, CopyAll(EmptyFields, maps[fds], DOMAIN maps[fds]))

\* The field set Extract resolves on a context
Resolved(c) == ExtractEntry(c).Data

Extract(c) ==
    /\ last' = [op |-> "Extract", ctx |-> c, val |-> Value(c),
                ret |-> ExtractEntry(c)]
    /\ UNCHANGED <<maps, builders, ctxs, logger, frames>>

-----------------------------------------------------------------------------
(* ToContext *)

\* The map the merge loop writes: fields[k] = v
MergeDstParent(parentVals, fields) == parentVals

MergeDst(parentVals, fields) == fields

\* The child carrying its parent's map when there is one
ChildValShared(parentVals, fields) ==
    IF parentVals # NilMap THEN parentVals ELSE fields

\* The map the child node carries: context.WithValue(ctx, ctxKey, fields)
ChildVal(parentVals, fields) == fields

\* The merge loop writes a nil map as soon as the parent's map has a key
MergePanics(parentVals, fields) ==
    /\ MergeDst(parentVals, fields) = NilMap
    /\ DOMAIN maps[parentVals] # {}

\* The merge loop left out
MergedNone(parentVals, fields) == maps

\* The heap after the merge loop has run to its end
Merged(parentVals, fields) ==
    LET dst == MergeDst(parentVals, fields)
    IN  IF dst = NilMap THEN maps
        ELSE [maps EXCEPT ![dst] =
                 CopyAll(@, maps[parentVals], DOMAIN maps[parentVals])]

ContentOf(r) == IF r = NilMap THEN EmptyFields ELSE maps[r]

ToContext(c, fields) ==
    LET a == AssertMap(Value(c))
        parentVals == a.val
        ok == a.ok
        loops == ok /\ ~(parentVals = NilMap /\ ok)
        call == [op |-> "ToContext", ctx |-> c, fields |-> fields,
                 argBefore |-> ContentOf(fields),
                 parentBefore |-> Resolved(c)]
    IN  /\ Len(ctxs) < MaxCtx
        /\ IF loops /\ MergePanics(parentVals, fields)
             THEN /\ last' = [call EXCEPT !.op = "ToContext"] @@
                              [panic |-> TRUE, ret |-> Root]
                  /\ UNCHANGED <<maps, ctxs>>
             ELSE /\ maps' = IF loops THEN Merged(parentVals, fields) ELSE maps
                  /\ ctxs' = Append(ctxs, [val |-> ChildVal(parentVals, fields)])
                  /\ last' = call @@ [panic |-> FALSE, ret |-> Len(ctxs) + 1]
        /\ UNCHANGED <<builders, logger, frames>>

-----------------------------------------------------------------------------
(* logCtxBuilder *)

\* cb.init() with the nil check dropped
initAlways(cb, heap) ==
    [cb |-> [ctx |-> Len(heap) + 1], maps |-> Append(heap, EmptyFields)]

\* cb.init(): the builder and the heap after it
init(cb, heap) ==
    IF cb.ctx = NilMap
      THEN [cb |-> [ctx |-> Len(heap) + 1], maps |-> Append(heap, EmptyFields)]
      ELSE [cb |-> cb, maps |-> heap]

NewLogCtxBuilder ==
    LET r == init([ctx |-> NilMap], maps)
    IN  /\ Len(builders) < MaxBuilders
        /\ builders' = Append(builders, r.cb)
        /\ maps' = r.maps
        /\ last' = [op |-> "NewLogCtxBuilder", ret |-> Len(builders) + 1]
        /\ UNCHANGED <<ctxs, logger, frames>>

WithField(b, field, value) ==
    LET r == init(builders[b], maps)
    IN  /\ maps' = [r.maps EXCEPT ![r.cb.ctx] = Put(@, field, value)]
        /\ builders' = [builders EXCEPT ![b] = r.cb]
        /\ last' = [op |-> "WithField", b |-> b, ret |-> b]
        /\ UNCHANGED <<ctxs, logger, frames>>

WithProvider(b, provider) == WithField(b, providerKey, provider)

WithService(b, service) == WithField(b, serviceKey, service)

WithRegion(b, region) == WithField(b, regionKey, region)

WithCorrelationId(b, cid) == WithField(b, correlationIdKey, cid)

WithScrapeIdShort(b, id) == WithField(b, scrapeIdShortKey, id)

WithScrapeIdFull(b, id) == WithField(b, scrapeIdFullKey, id)

Build(b) ==
    LET r == init(builders[b], maps)
    IN  /\ maps' = r.maps
        /\ builders' = [builders EXCEPT ![b] = r.cb]
        /\ last' = [op |-> "Build", b |-> b, ret |-> r.cb.ctx]
        /\ UNCHANGED <<ctxs, logger, frames>>

-----------------------------------------------------------------------------
(* The package used from one goroutine *)

Builders == 1 .. Len(builders)

\* The maps a caller can pass to ToContext: nil, or what a Build() returned
FieldArgs == {NilMap} \cup {builders[b].ctx : b \in Builders}

Init ==
    /\ maps = <<>>
    /\ builders = <<>>
    /\ ctxs = <<>>
    /\ logger = LogrusNew
    /\ last = [op |-> "none"]
    /\ wlog = <<>>
    /\ frames = <<>>

Next ==
    \/ \E l \in StartLevels, f \in StartFormats :
          InitLogger(l, f) /\ UNCHANGED wlog
    \/ NewLogCtxBuilder /\ UNCHANGED wlog
    \/ \E b \in Builders, cid \in CorrelationIds :
          WithCorrelationId(b, cid) /\ UNCHANGED wlog
    \/ \E b \in Builders, region \in Regions :
          WithRegion(b, region) /\ UNCHANGED wlog
    \/ \E b \in Builders : Build(b) /\ UNCHANGED wlog
    \/ \E c \in Contexts, f \in FieldArgs : ToContext(c, f) /\ UNCHANGED wlog
    \/ \E c \in Contexts : Extract(c) /\ UNCHANGED wlog

Spec == Init /\ [][Next]_vars

-----------------------------------------------------------------------------
(* InitLogger alone, over the level and format strings *)

LoggerNext ==
    \E l \in LevelStrings, f \in FormatStrings :
        InitLogger(l, f) /\ UNCHANGED wlog

LoggerSpec == Init /\ [][LoggerNext]_vars

-----------------------------------------------------------------------------
(* Builder sessions: a builder is made, written and built, then the next   *)
(* one is made; every call on a builder is recorded in wlog                *)

\* The builder in use: the one made last
Current == {b \in Builders : b = Len(builders)}

Written(b, name, value) ==
    /\ Len(wlog) < MaxLog
    /\ wlog' = Append(wlog, [op |-> "write", b |-> b, name |-> name,
                             value |-> value, ret |-> last'.ret])

Built(b) ==
    /\ Len(wlog) < MaxLog
    /\ wlog' = Append(wlog, [op |-> "build", b |-> b, ret |-> last'.ret,
                             fields |-> maps'[last'.ret]])

BuilderNext ==
    \/ /\ last.op \in {"none", "Build"}
       /\ NewLogCtxBuilder
       /\ UNCHANGED wlog
    \/ \E b \in Current, k \in FieldNames, v \in FieldValues :
          WithField(b, k, v) /\ Written(b, k, v)
    \/ \E b \in Current, v \in Providers :
          WithProvider(b, v) /\ Written(b, "provider", v)
    \/ \E b \in Current, v \in Services :
          WithService(b, v) /\ Written(b, "service", v)
    \/ \E b \in Current, v \in LongRegions :
          WithRegion(b, v) /\ Written(b, "region", v)
    \/ \E b \in Current, v \in CorrelationIds :
          WithCorrelationId(b, v) /\ Written(b, "correlation-id", v)
    \/ \E b \in Current, v \in ScrapeIds :
          WithScrapeIdShort(b, v) /\ Written(b, "scrape-id-short", v)
    \/ \E b \in Current, v \in ScrapeIds :
          WithScrapeIdFull(b, v) /\ Written(b, "scrape-id-full", v)
    \/ \E b \in Current : Build(b) /\ Built(b)

BuilderSpec == Init /\ [][BuilderNext]_vars

-----------------------------------------------------------------------------
(* ToContext called from sibling goroutines on the same parent context,    *)
(* each with a field set of its own; a step is one statement of ToContext  *)

\* The field sets over correlation-id and region
FieldSets ==
    LET both == [{correlationIdKey, regionKey} -> CorrelationIds \cup Regions]
    IN  { [k \in K |-> f[k]] :
            K \in SUBSET {correlationIdKey, regionKey},
            f \in { g \in both : /\ g[correlationIdKey] \in CorrelationIds
                                 /\ g[regionKey] \in Regions } }

Frames == {FrameNames[i] : i \in 1 .. Len(FrameNames)}

\* Map 1 is the parent's, map 1 + i the one frame i passes
FrameMap(f) == 1 + CHOOSE i \in 1 .. Len(FrameNames) : FrameNames[i] = f

ConcInit ==
    /\ maps \in [1 .. (1 + Cardinality(Frames)) -> FieldSets]
    /\ builders = [i \in 1 .. (1 + Cardinality(Frames)) |-> [ctx |-> i]]
    /\ ctxs \in {<<[val |-> 1]>>, <<[val |-> NilMap]>>}
    /\ logger = LogrusNew
    /\ last = [op |-> "none"]
    /\ wlog = <<>>
    /\ \E c \in {Root, 1} :
          frames = [f \in Frames |->
                      [pc |-> "call", ctx |-> c, fields |-> FrameMap(f),
                       parentVals |-> NilMap, todo |-> {}, ret |-> Root,
                       argBefore |-> maps[FrameMap(f)],
                       parentBefore |-> Resolved(c)]]

\* lines 100-107: the parent's map is read and the branch taken
FrameEnter(f) ==
    LET fr == frames[f]
        a == AssertMap(Value(fr.ctx))
    IN  /\ fr.pc = "call"
        /\ frames' = [frames EXCEPT ![f] =
              IF (a.val = NilMap /\ a.ok) \/ ~a.ok
                THEN [fr EXCEPT !.pc = "return"]
                ELSE [fr EXCEPT !.pc = "range", !.parentVals = a.val,
                                !.todo = DOMAIN maps[a.val]]]
        /\ UNCHANGED <<maps, builders, ctxs, logger, last, wlog>>

\* lines 108-110: one iteration of the range loop, or its end
FrameRange(f) ==
    LET fr == frames[f]
        dst == MergeDst(fr.parentVals, fr.fields)
    IN  /\ fr.pc = "range"
        /\ dst # NilMap
        /\ IF fr.todo = {}
             THEN /\ frames' = [frames EXCEPT ![f].pc = "return"]
                  /\ maps' = maps
             ELSE \E k \in fr.todo :
                  /\ maps' = [maps EXCEPT ![dst] = Put(@, k, maps[fr.parentVals][k])]
                  /\ frames' = [frames EXCEPT ![f].todo = @ \ {k}]
        /\ UNCHANGED <<builders, ctxs, logger, last, wlog>>

\* line 104 or 113: the child node is made and returned
FrameReturn(f) ==
    LET fr == frames[f]
    IN  /\ fr.pc = "return"
        /\ ctxs' = Append(ctxs, [val |-> ChildVal(fr.parentVals, fr.fields)])
        /\ frames' = [frames EXCEPT ![f].pc = "done", ![f].ret = Len(ctxs) + 1]
        /\ UNCHANGED <<maps, builders, logger, last, wlog>>

ConcNext ==
    \/ \E f \in Frames : FrameEnter(f)
    \/ \E f \in Frames : FrameRange(f)
    \/ \E f \in Frames : FrameReturn(f)

ConcSpec == ConcInit /\ [][ConcNext]_vars

-----------------------------------------------------------------------------
(* Properties *)

\* fields laid over parent: a key of both takes the value of fields
Overlay(parent, fields) ==
    [k \in DOMAIN parent \cup DOMAIN fields |->
        IF k \in DOMAIN fields THEN fields[k] ELSE parent[k]]

\* What ToContext resolves on the child it returns: the parent's set laid
\* over the set passed (Spec)
AttachActual ==
    (last.op = "ToContext" /\ ~last.panic)
        => Resolved(last.ret) = Overlay(last.argBefore, last.parentBefore)

\* C1: the set resolved on the child ToContext returns is the set passed
\* laid over the set resolved on the parent, the keys of the set passed
\* taking precedence.
C1_ChildOverridesParent ==
    (last.op = "ToContext" /\ ~last.panic)
        => Resolved(last.ret) = Overlay(last.parentBefore, last.argBefore)

\* C2: no step changes the set resolved on a context node that exists.
C2_NodeNeverMutated ==
    [][\A n \in 1 .. Len(ctxs) : Resolved(n)' = Resolved(n)]_vars

\* C3: ToContext leaves the content of the map passed to it as it was.
C3_AttachLeavesFields ==
    (last.op = "ToContext" /\ last.fields # NilMap)
        => maps[last.fields] = last.argBefore

\* C4: ToContext never panics and returns a new child context, whatever
\* the parent carries and whatever map (nil included) is passed.
C4_AttachNeverFails ==
    last.op = "ToContext"
        => (~last.panic /\ last.ret = Len(ctxs) /\ last.ret # Root)

\* C5: Extract on a context with no field set attached returns an entry,
\* never nil, of the package's logger and with an empty field set.
C5_ExtractUnset ==
    (last.op = "Extract" /\ last.val \in {NoValue, NilMap})
        => /\ ~last.ret.nil
           /\ last.ret.Logger = logger
           /\ DOMAIN last.ret.Data = {}

C5_Witness ==
    /\ last.op = "Extract"
    /\ last.val = NoValue
    /\ logger # LogrusNew
    /\ Len(ctxs) > 0

\* C6: attaching an empty (non-nil) field set resolves on the child the
\* very set resolved on the parent.
C6_AttachEmptyIsIdentity ==
    (last.op = "ToContext" /\ last.fields # NilMap /\ DOMAIN last.argBefore = {})
        => (~last.panic /\ Resolved(last.ret) = last.parentBefore)

C6_Witness ==
    /\ last.op = "ToContext"
    /\ last.fields # NilMap
    /\ DOMAIN last.argBefore = {}
    /\ ~last.panic
    /\ DOMAIN last.parentBefore = {correlationIdKey, regionKey}
    /\ Value(last.ctx) # last.fields

\* The child a ToContext call resolves when it runs alone: the parent's set
\* laid over the set passed, as AttachActual states of the call in Spec
AloneResult(fr) == Overlay(fr.argBefore, fr.parentBefore)

\* C7: under every interleaving of sibling ToContext calls on one parent,
\* each with a map of its own, the parent resolves what it resolved before,
\* each child resolves what its call alone would have made, and no two of
\* the parent and the children carry the same map.
C7_SiblingsDoNotInterfere ==
    /\ \A f \in Frames : Resolved(frames[f].ctx) = frames[f].parentBefore
    /\ \A f \in Frames :
          frames[f].pc = "done" =>
              /\ Resolved(frames[f].ret) = AloneResult(frames[f])
              /\ Value(frames[f].ret) # Value(frames[f].ctx)
    /\ \A f, g \in Frames :
          (f # g /\ frames[f].pc = "done" /\ frames[g].pc = "done")
              => Value(frames[f].ret) # Value(frames[g].ret)

C7_Witness ==
    /\ \A f \in Frames : frames[f].pc = "done"
    /\ \A f \in Frames : DOMAIN frames[f].parentBefore = {correlationIdKey, regionKey}
    /\ \E f, g \in Frames :
          /\ frames[f].argBefore # frames[g].argBefore
          /\ correlationIdKey \in DOMAIN frames[f].argBefore
          /\ frames[f].argBefore[correlationIdKey]
                 # frames[f].parentBefore[correlationIdKey]
          /\ DOMAIN frames[g].argBefore = {}

\* The writes of builder b among wlog[lo .. hi]
WritesOf(b, lo, hi) ==
    {i \in lo .. hi : wlog[i].op = "write" /\ wlog[i].b = b}

\* The names b was written in wlog[lo .. hi], each with its last value
ExpectedFields(b, lo, hi) ==
    LET ws == WritesOf(b, lo, hi)
        lastOf(k) == CHOOSE i \in ws :
                        /\ wlog[i].name = k
                        /\ \A j \in ws : wlog[j].name = k => j <= i
    IN  [k \in {wlog[i].name : i \in ws} |-> wlog[lastOf(k)].value]

BuildsOf(b) == {i \in 1 .. Len(wlog) : wlog[i].op = "build" /\ wlog[i].b = b}

\* C8: every WithField and convenience setter returns the builder it was
\* called on, and Build() returns the mapping of exactly the names written,
\* each setter under its reserved name, to the last value written for each;
\* a fresh builder builds the empty mapping.
C8_BuildIsWhatWasWritten ==
    /\ \A i \in 1 .. Len(wlog) : wlog[i].op = "write" => wlog[i].ret = wlog[i].b
    /\ \A b \in Builders :
          /\ maps[builders[b].ctx] = ExpectedFields(b, 1, Len(wlog))
          /\ \A j \in BuildsOf(b) : wlog[j].fields = ExpectedFields(b, 1, j - 1)

C8_Witness ==
    \E j \in 1 .. Len(wlog) :
        /\ wlog[j].op = "build"
        /\ wlog[j].fields = [provider |-> "aws", service |-> "pke",
                             region |-> "eu-west-1"]

C10_ConfigureFallsBack ==
    last.op = "InitLogger" =>
        /\ last.level \in {"bogus-level", ""} => logger.Level = "info"
        /\ last.level \in {"panic", "fatal", "error", "warn", "info", "debug",
                           "trace"} => logger.Level = last.level
        /\ last.level \in {"warning", "WARN"} => logger.Level = "warn"
        /\ last.level = "Debug" => logger.Level = "debug"
        /\ last.format = "json" => logger.Formatter = "json"
        /\ last.format # "json" => logger.Formatter = "text"

C10_Witness ==
    /\ last.op = "InitLogger"
    /\ last.level = "bogus-level"
    /\ last.format = "json"
    /\ logger.Level = "info"
    /\ logger.Formatter = "json"

====
